---- MODULE Spec2Model ----
(***************************************************************************)
(* A model of src/main.rs: the compiler (parse_character, match_brackets,  *)
(* compile) and the execution engine (State and execute) of the brainfuck  *)
(* interpreter.  Indices (jump_location, data_pointer, instruction_pointer)*)
(* are 0-based as in the source; TLA+ sequences are 1-based, so element i  *)
(* of a Vec v is v[i + 1].                                                 *)
(***************************************************************************)
EXTENDS Integers, Sequences, FiniteSets

\* Longest source text explored.
MaxSrcLen == 4
\* usize::MAX, scaled down: the largest representable index or length.
UsizeMax == 3
\* Number of bytes the external input stream holds before it ends.
MaxStdin == 3
\* Longest line the input stream delivers to one read.
MaxLineLen == 2
\* Output steps are explored until the output holds this many bytes more than
\* the source has characters.
MaxOut == 2
\* usize::MAX, scaled down, for the run of the Hello World program.
HelloUsizeMax == 8
\* Number of values of a u8 cell.
ByteMod == 256
\* The line terminator of read!("{}\n").
Newline == 10

VARIABLES
    source,               \* main: source_code, the text read from the file
    pc,                   \* main: where the process is (see Init)
    bytecode,             \* main: bytecode, the result of compile
    memory,               \* State.memory
    data_pointer,         \* State.data_pointer
    instruction_pointer,  \* State.instruction_pointer
    stdout,               \* the bytes print! has written so far
    stdin_consumed,       \* the bytes read! has taken from the input so far
    stdin_eof,            \* the input stream has reported its end
    overflow_checks,      \* the build panics on integer overflow (debug profile)
    usize_max,            \* usize::MAX of the platform the build targets
    last,                 \* the machine state before the latest execute step
    ref                   \* the reference engine run beside execute (see RefNew)

vars == <<source, pc, bytecode, memory, data_pointer, instruction_pointer,
          stdout, stdin_consumed, stdin_eof, overflow_checks, usize_max, last,
          ref>>

---------------------------------------------------------------------------
\* Source characters: the eight commands and one character that is none of them.
Commands == {">", "<", "+", "-", ".", ",", "[", "]"}
Chars == Commands \cup {"x"}

\* Bytes the input stream carries besides the line terminator (ASCII, so that
\* every line is valid UTF-8 and read! returns a String).
DataBytes == {1, 127}

\* Element i (0-based) of a Vec.
At(v, i) == v[i + 1]

\* All sequences over S of length at most n.
SeqUpTo(S, n) == UNION {[1..k -> S] : k \in 0..n}

\* parse_character with the arms of '>' and '<' exchanged.
parse_character_swapped(character) ==
    CASE character = ">" -> <<[op |-> "DecPointer"]>>
      [] character = "<" -> <<[op |-> "IncPointer"]>>
      [] character = "+" -> <<[op |-> "IncByte"]>>
      [] character = "-" -> <<[op |-> "DecByte"]>>
      [] character = "." -> <<[op |-> "Output"]>>
      [] character = "," -> <<[op |-> "Input"]>>
      [] character = "[" -> <<[op |-> "EmptyOpenBracket"]>>
      [] character = "]" -> <<[op |-> "EmptyCloseBracket"]>>
      [] OTHER -> <<>>

\* Option<Instruction>: None is the empty sequence, Some(x) is <<x>>.
parse_character(character) ==
    CASE character = ">" -> <<[op |-> "IncPointer"]>>
      [] character = "<" -> <<[op |-> "DecPointer"]>>
      [] character = "+" -> <<[op |-> "IncByte"]>>
      [] character = "-" -> <<[op |-> "DecByte"]>>
      [] character = "." -> <<[op |-> "Output"]>>
      [] character = "," -> <<[op |-> "Input"]>>
      [] character = "[" -> <<[op |-> "EmptyOpenBracket"]>>
      [] character = "]" -> <<[op |-> "EmptyCloseBracket"]>>
      [] OTHER -> <<>>

\* Number of instructions of bytecode whose kind is op.
count_op(bc, op) == Cardinality({k \in 1..Len(bc) : bc[k].op = op})

\* brackets_are_balanced without its comparison.
brackets_are_balanced_always(bc) == TRUE

brackets_are_balanced(bc) ==
    count_op(bc, "EmptyOpenBracket") = count_op(bc, "EmptyCloseBracket")

\* resolve_pair with the LoopOpen given its own index.
resolve_pair_self(result, open_location, i) ==
    [result EXCEPT ![i + 1] = [op |-> "CloseBracket", jump_location |-> open_location],
                   ![open_location + 1] = [op |-> "OpenBracket", jump_location |-> open_location]]

\* The two assignments of the EmptyCloseBracket arm.
resolve_pair(result, open_location, i) ==
    [result EXCEPT ![i + 1] = [op |-> "CloseBracket", jump_location |-> open_location],
                   ![open_location + 1] = [op |-> "OpenBracket", jump_location |-> i]]

\* match_step that takes the oldest open location instead of the newest.
match_step_fifo(bc, i, acc) ==
    IF acc.tag # "Ok" THEN acc
    ELSE CASE At(bc, i).op = "EmptyOpenBracket" ->
                [acc EXCEPT !.open_locations = Append(@, i)]
           [] At(bc, i).op = "EmptyCloseBracket" ->
                IF acc.open_locations = <<>>
                THEN [tag |-> "Panic", bytecode |-> <<>>, open_locations |-> <<>>]
                ELSE [acc EXCEPT
                        !.bytecode = resolve_pair(@, acc.open_locations[1], i),
                        !.open_locations = Tail(@)]
           [] OTHER -> acc

\* One iteration of the for loop of match_brackets, at index i.  acc holds
\* result and the stack open_locations; pop() on an empty stack makes expect()
\* panic, and no iteration follows a panic.
match_step(bc, i, acc) ==
    IF acc.tag # "Ok" THEN acc
    ELSE CASE At(bc, i).op = "EmptyOpenBracket" ->
                [acc EXCEPT !.open_locations = Append(@, i)]
           [] At(bc, i).op = "EmptyCloseBracket" ->
                IF acc.open_locations = <<>>
                THEN [tag |-> "Panic", bytecode |-> <<>>, open_locations |-> <<>>]
                ELSE LET n == Len(acc.open_locations) IN
                     [acc EXCEPT
                        !.bytecode = resolve_pair(@, acc.open_locations[n], i),
                        !.open_locations = SubSeq(@, 1, n - 1)]
           [] OTHER -> acc

\* The iterations of the for loop at the indices lo .. hi - 1, in order (the
\* range is halved so that long programs do not nest deeply, and the state
\* after the first half is bound as a value before the second half runs).
RECURSIVE match_loop(_, _, _, _)
match_loop(bc, lo, hi, acc) ==
    IF lo >= hi THEN acc
    ELSE IF hi = lo + 1 THEN match_step(bc, lo, acc)
    ELSE LET mid == (lo + hi) \div 2 IN
         CHOOSE done \in {match_loop(bc, mid, hi, left) :
                             left \in {match_loop(bc, lo, mid, acc)}} : TRUE

match_brackets(bc) ==
    IF ~brackets_are_balanced(bc)
    THEN [tag |-> "Err", bytecode |-> <<>>]
    ELSE LET done == match_loop(bc, 0, Len(bc),
                        [tag |-> "Ok", bytecode |-> bc, open_locations |-> <<>>])
         IN [tag |-> done.tag, bytecode |-> done.bytecode]

\* source_code.chars().filter_map(parse_character).collect()
filter_map_parse(src) ==
    CHOOSE parsed \in {[k \in 1..Len(kept) |-> parse_character(kept[k])[1]] \o <<>> :
                          kept \in {SelectSeq(src, LAMBDA c : parse_character(c) # <<>>)}} : TRUE

compile(source_code) ==
    CHOOSE result \in {match_brackets(bytecode_in) :
                          bytecode_in \in {filter_map_parse(source_code)}} : TRUE

---------------------------------------------------------------------------
\* State::new()
NewMemory == <<0>>

NoStep == [op |-> "None", instruction_pointer |-> 0, data_pointer |-> 0,
           memory |-> NewMemory, stdout |-> <<>>, stdin_consumed |-> <<>>]

\* The reference engine of the specification: the same machine, run on the
\* same program and the same input, whose taken branches go to partner + 1.
RefNew == [memory |-> NewMemory, data_pointer |-> 0, instruction_pointer |-> 0,
           stdout |-> <<>>, pc |-> "compile"]

\* What every run starts from, whatever its source.
Fresh ==
    /\ overflow_checks \in BOOLEAN
    /\ pc = "compile"
    /\ bytecode = <<>>
    /\ memory = NewMemory
    /\ data_pointer = 0
    /\ instruction_pointer = 0
    /\ stdout = <<>>
    /\ stdin_consumed = <<>>
    /\ stdin_eof = FALSE
    /\ last = NoStep
    /\ ref = RefNew

\* pc: "compile"        main is about to call compile
\*     "execute"        execute is in its while loop
\*     "ok"             execute returned Ok(())
\*     "compile_error"  compile returned Err(CompileError)
\*     "compile_panic"  compile panicked
\*     "runtime_error"  execute returned Err(RuntimeError)
\*     "runtime_panic"  execute panicked
Init ==
    /\ source \in SeqUpTo(Chars, MaxSrcLen)
    /\ usize_max = UsizeMax
    /\ Fresh

\* main: let bytecode = match compile(source_code) {...}; execute starts with
\* State::new().
Compile ==
    /\ pc = "compile"
    /\ \E r \in {compile(source)} :
        /\ pc' = CASE r.tag = "Ok" -> "execute"
                   [] r.tag = "Err" -> "compile_error"
                   [] OTHER -> "compile_panic"
        /\ bytecode' = r.bytecode
        /\ ref' = [ref EXCEPT !.pc = pc']
    /\ UNCHANGED <<source, memory, data_pointer, instruction_pointer, stdout,
                   stdin_consumed, stdin_eof, overflow_checks, usize_max, last>>

---------------------------------------------------------------------------
\* The State the methods take by value, and the Result they return.  A panic
\* unwinds execute; it is a third way for a call to end.
Self == [memory |-> memory, data_pointer |-> data_pointer,
         instruction_pointer |-> instruction_pointer]

Ok(state) == [tag |-> "Ok", state |-> state]
Err(state) == [tag |-> "Err", state |-> state]
Panic(state) == [tag |-> "Panic", state |-> state]

\* The cell under the data pointer: self.memory[self.data_pointer].
Cell(state) == At(state.memory, state.data_pointer)

WithCell(state, value) ==
    [state EXCEPT !.memory[state.data_pointer + 1] = value]

Advance(state) ==
    [state EXCEPT !.instruction_pointer = state.instruction_pointer + 1]

\* inc_pointer without the test that guards push_back.
inc_pointer_always_push(self) ==
    IF self.data_pointer = usize_max THEN Err(self)
    ELSE IF Len(self.memory) = usize_max THEN Panic(self)
    ELSE Ok(Advance([self EXCEPT !.data_pointer = self.data_pointer + 1,
                                 !.memory = Append(self.memory, 0)]))

\* inc_pointer without its push_back.
inc_pointer_no_push(self) ==
    IF self.data_pointer = usize_max THEN Err(self)
    ELSE Ok(Advance([self EXCEPT !.data_pointer = self.data_pointer + 1]))

\* VecDeque::push_back cannot hold more than usize_max cells ("capacity overflow").
inc_pointer(self) ==
    IF self.data_pointer = usize_max THEN Err(self)
    ELSE LET moved == [self EXCEPT !.data_pointer = self.data_pointer + 1] IN
         IF moved.data_pointer = Len(self.memory)
         THEN IF Len(self.memory) = usize_max THEN Panic(self)
              ELSE Ok(Advance([moved EXCEPT !.memory = Append(self.memory, 0)]))
         ELSE Ok(Advance(moved))

\* dec_pointer that adds the new cell at the high end.
dec_pointer_push_back(self) ==
    IF self.data_pointer = 0 /\ Len(self.memory) = usize_max THEN Err(self)
    ELSE IF self.data_pointer = 0
         THEN Ok(Advance([self EXCEPT !.memory = Append(self.memory, 0)]))
         ELSE Ok(Advance([self EXCEPT !.data_pointer = self.data_pointer - 1]))

\* dec_pointer without push_front: at cell 0 the subtraction wraps.
dec_pointer_no_push(self) ==
    IF self.data_pointer = 0 /\ Len(self.memory) = usize_max THEN Err(self)
    ELSE IF self.data_pointer = 0
         THEN Ok(Advance([self EXCEPT !.data_pointer = usize_max]))
         ELSE Ok(Advance([self EXCEPT !.data_pointer = self.data_pointer - 1]))

dec_pointer(self) ==
    IF self.data_pointer = 0 /\ Len(self.memory) = usize_max THEN Err(self)
    ELSE IF self.data_pointer = 0
         THEN Ok(Advance([self EXCEPT !.memory = <<0>> \o self.memory]))
         ELSE Ok(Advance([self EXCEPT !.data_pointer = self.data_pointer - 1]))

\* u8 += 1: with overflow checks the addition of 1 to 255 panics, without
\* them it wraps.
inc_byte(self, checks) ==
    IF Cell(self) = ByteMod - 1 /\ checks THEN Panic(self)
    ELSE Ok(Advance(WithCell(self, (Cell(self) + 1) % ByteMod)))

\* dec_byte that subtracts 2.
dec_byte_by_two(self, checks) ==
    IF Cell(self) < 2 /\ checks THEN Panic(self)
    ELSE Ok(Advance(WithCell(self, (Cell(self) - 2) % ByteMod)))

\* u8 -= 1, likewise.
dec_byte(self, checks) ==
    IF Cell(self) = 0 /\ checks THEN Panic(self)
    ELSE Ok(Advance(WithCell(self, (Cell(self) - 1) % ByteMod)))

\* print!("{}", byte): the number in decimal digits, not the character.
printed_bytes_decimal(byte) ==
    LET digit(d) == 48 + d IN
    IF byte < 10 THEN <<digit(byte)>>
    ELSE IF byte < 100 THEN <<digit(byte \div 10), digit(byte % 10)>>
    ELSE <<digit(byte \div 100), digit((byte \div 10) % 10), digit(byte % 10)>>

\* print!("{}", byte as char): the char U+0000..U+00FF is written in UTF-8,
\* one byte below 128 and two bytes from 128 on.
printed_bytes(byte) ==
    IF byte < 128 THEN <<byte>>
    ELSE <<192 + (byte \div 64), 128 + (byte % 64)>>

output(self) == Ok(Advance(self))

\* line is the String read!("{}\n") returned: the bytes before the next newline
\* (or before the end of the stream).
input(self, line) ==
    IF line = <<>> THEN Err(self)
    ELSE Ok(Advance(WithCell(self, line[1])))

\* open_bracket with its test negated.
open_bracket_inverted(self, jump_location) ==
    IF Cell(self) # 0
    THEN Ok([self EXCEPT !.instruction_pointer = jump_location])
    ELSE Ok(Advance(self))

\* open_bracket whose taken branch goes two past the partner.
open_bracket_skips(self, jump_location) ==
    IF Cell(self) = 0
    THEN Ok([self EXCEPT !.instruction_pointer = jump_location + 2])
    ELSE Ok(Advance(self))

open_bracket(self, jump_location) ==
    IF Cell(self) = 0
    THEN Ok([self EXCEPT !.instruction_pointer = jump_location])
    ELSE Ok(Advance(self))

\* close_bracket with its test negated.
close_bracket_inverted(self, jump_location) ==
    IF Cell(self) = 0
    THEN Ok([self EXCEPT !.instruction_pointer = jump_location])
    ELSE Ok(Advance(self))

close_bracket(self, jump_location) ==
    IF Cell(self) # 0
    THEN Ok([self EXCEPT !.instruction_pointer = jump_location])
    ELSE Ok(Advance(self))

---------------------------------------------------------------------------
\* The reference engine's State.
RefSelf == [memory |-> ref.memory, data_pointer |-> ref.data_pointer,
            instruction_pointer |-> ref.instruction_pointer]

\* LoopOpen(partner) of the reference engine.
ref_open_bracket(self, jump_location) ==
    IF Cell(self) = 0
    THEN Ok([self EXCEPT !.instruction_pointer = jump_location + 1])
    ELSE Ok(Advance(self))

\* LoopClose(partner) of the reference engine.
ref_close_bracket(self, jump_location) ==
    IF Cell(self) # 0
    THEN Ok([self EXCEPT !.instruction_pointer = jump_location + 1])
    ELSE Ok(Advance(self))

\* How a Result ends the step: execute goes on, returns Err, or unwinds.
PcAfter(r) ==
    CASE r.tag = "Ok" -> "execute"
      [] r.tag = "Err" -> "runtime_error"
      [] OTHER -> "runtime_panic"

\* The reference engine after the step with Result rr that wrote the bytes
\* written.  It steps when it is at the instruction execute is at; when a
\* taken branch has put it one instruction ahead it waits.
RefAfter(rr, written) ==
    IF ref.instruction_pointer = instruction_pointer
    THEN [memory |-> rr.state.memory,
          data_pointer |-> rr.state.data_pointer,
          instruction_pointer |-> rr.state.instruction_pointer,
          stdout |-> ref.stdout \o written,
          pc |-> PcAfter(rr)]
    ELSE ref

---------------------------------------------------------------------------
\* execute: the while condition holds and the match selects the arm of op.
Fetch(op) ==
    /\ pc = "execute"
    /\ instruction_pointer < Len(bytecode)
    /\ At(bytecode, instruction_pointer).op = op

\* state = state.method()?; and the record of the step taken.
Return(op, r) ==
    /\ pc' = PcAfter(r)
    /\ memory' = r.state.memory
    /\ data_pointer' = r.state.data_pointer
    /\ instruction_pointer' = r.state.instruction_pointer
    /\ last' = [op |-> op, instruction_pointer |-> instruction_pointer,
                data_pointer |-> data_pointer, memory |-> memory,
                stdout |-> stdout, stdin_consumed |-> stdin_consumed]
    /\ UNCHANGED <<source, bytecode, overflow_checks, usize_max>>

IncPointer ==
    /\ Fetch("IncPointer")
    /\ Return("IncPointer", inc_pointer(Self))
    /\ ref' = RefAfter(inc_pointer(RefSelf), <<>>)
    /\ UNCHANGED <<stdout, stdin_consumed, stdin_eof>>

DecPointer ==
    /\ Fetch("DecPointer")
    /\ Return("DecPointer", dec_pointer(Self))
    /\ ref' = RefAfter(dec_pointer(RefSelf), <<>>)
    /\ UNCHANGED <<stdout, stdin_consumed, stdin_eof>>

IncByte ==
    /\ Fetch("IncByte")
    /\ Return("IncByte", inc_byte(Self, overflow_checks))
    /\ ref' = RefAfter(inc_byte(RefSelf, overflow_checks), <<>>)
    /\ UNCHANGED <<stdout, stdin_consumed, stdin_eof>>

DecByte ==
    /\ Fetch("DecByte")
    /\ Return("DecByte", dec_byte(Self, overflow_checks))
    /\ ref' = RefAfter(dec_byte(RefSelf, overflow_checks), <<>>)
    /\ UNCHANGED <<stdout, stdin_consumed, stdin_eof>>

Output ==
    /\ Fetch("Output")
    /\ Len(stdout) < MaxOut + Len(source)
    /\ stdout' = stdout \o printed_bytes(Cell(Self))
    /\ Return("Output", output(Self))
    /\ ref' = RefAfter(output(RefSelf), printed_bytes(Cell(RefSelf)))
    /\ UNCHANGED <<stdin_consumed, stdin_eof>>

\* read!("{}\n") takes the bytes of the stream up to and including the next
\* newline, or up to the end of the stream, and returns those before the
\* newline.  The stream is the environment's: any line of DataBytes, as long
\* as the stream holds at most MaxStdin bytes; once ended it stays ended.
Input ==
    /\ Fetch("Input")
    /\ \E line \in SeqUpTo(DataBytes, MaxLineLen), terminated \in BOOLEAN :
        LET taken == IF terminated THEN Append(line, Newline) ELSE line IN
        /\ IF stdin_eof THEN taken = <<>>
           ELSE Len(stdin_consumed) + Len(taken) <= MaxStdin
        /\ stdin_consumed' = stdin_consumed \o taken
        /\ stdin_eof' = ~terminated
        /\ Return("Input", input(Self, line))
        /\ ref' = RefAfter(input(RefSelf, line), <<>>)
    /\ UNCHANGED stdout

OpenBracket ==
    /\ Fetch("OpenBracket")
    /\ Return("OpenBracket",
              open_bracket(Self, At(bytecode, instruction_pointer).jump_location))
    /\ ref' = RefAfter(ref_open_bracket(RefSelf,
                         At(bytecode, instruction_pointer).jump_location), <<>>)
    /\ UNCHANGED <<stdout, stdin_consumed, stdin_eof>>

CloseBracket ==
    /\ Fetch("CloseBracket")
    /\ Return("CloseBracket",
              close_bracket(Self, At(bytecode, instruction_pointer).jump_location))
    /\ ref' = RefAfter(ref_close_bracket(RefSelf,
                         At(bytecode, instruction_pointer).jump_location), <<>>)
    /\ UNCHANGED <<stdout, stdin_consumed, stdin_eof>>

\* Finish with the while condition instruction_pointer + 1 < bytecode.len().
Finish_early ==
    /\ pc = "execute"
    /\ ~(instruction_pointer + 1 < Len(bytecode))
    /\ pc' = "ok"
    /\ ref' = IF ref.instruction_pointer < Len(bytecode) THEN ref
              ELSE [ref EXCEPT !.pc = "ok"]
    /\ UNCHANGED <<source, bytecode, memory, data_pointer, instruction_pointer,
                   stdout, stdin_consumed, stdin_eof, overflow_checks, usize_max,
                   last>>

\* execute: the while condition fails and execute returns Ok(()).
Finish ==
    /\ pc = "execute"
    /\ ~(instruction_pointer < Len(bytecode))
    /\ pc' = "ok"
    /\ ref' = IF ref.instruction_pointer < Len(bytecode) THEN ref
              ELSE [ref EXCEPT !.pc = "ok"]
    /\ UNCHANGED <<source, bytecode, memory, data_pointer, instruction_pointer,
                   stdout, stdin_consumed, stdin_eof, overflow_checks, usize_max,
                   last>>

Next ==
    \/ Compile
    \/ IncPointer
    \/ DecPointer
    \/ IncByte
    \/ DecByte
    \/ Output
    \/ Input
    \/ OpenBracket
    \/ CloseBracket
    \/ Finish

Spec == Init /\ [][Next]_vars
---------------------------------------------------------------------------
\* The Hello World program of the specification's section 8.
HelloSource == <<
    "+", "+", "+", "+", "+", "+", "+", "+", "[", ">", "+", "+",
    "+", "+", "[", ">", "+", "+", ">", "+", "+", "+", ">", "+",
    "+", "+", ">", "+", "<", "<", "<", "<", "-", "]", ">", "+",
    ">", "-", ">", "+", ">", ">", "+", "[", "<", "]", "<", "-",
    "]", ">", ">", ".", ">", ">", "-", "-", "-", ".", "+", "+",
    "+", "+", "+", "+", "+", ".", ".", "+", "+", "+", ".", ">",
    ".", "<", "<", "-", ".", ">", ".", "+", "+", "+", ".", "-",
    "-", "-", "-", "-", "-", ".", "-", "-", "-", "-", "-", "-",
    "-", "-", ".", ">", "+", ".", ">", "+", "+", "." >>

\* main run on the Hello World program.
InitHello ==
    /\ source = HelloSource
    /\ usize_max = HelloUsizeMax
    /\ Fresh

\* The program has no ',': the Input arm is never selected.
NextHello ==
    \/ Compile
    \/ IncPointer
    \/ DecPointer
    \/ IncByte
    \/ DecByte
    \/ Output
    \/ OpenBracket
    \/ CloseBracket
    \/ Finish

SpecHello == InitHello /\ [][NextHello]_vars

\* The process is a single thread that runs until it returns or panics.
FairHello == SpecHello /\ WF_vars(NextHello)

----------------------------------------------------------------------------
\* The clearing loop, run on every value a cell can hold.

\* The loop '[-]'.
ClearLoop == <<"[", "-", "]">>

\* n times the character c.
Repeat(c, n) == [k \in 1..n |-> c]

\* What runs before the loop: "+>", which leaves a cell holding 1 to the left
\* of the cell the loop works on, then v times '+'.
ClearPrefix == <<"+", ">">>

\* The loop on every v, and the programs '[-]' and '+[-]' on a fresh state.
ClearSources ==
    {ClearPrefix \o Repeat("+", v) \o ClearLoop : v \in 0..(ByteMod - 1)}
        \cup {ClearLoop, <<"+">> \o ClearLoop}

\* main run on a program that brings the current cell to v and then clears it.
InitClear ==
    /\ source \in ClearSources
    /\ usize_max = UsizeMax
    /\ Fresh

\* The arms these programs select.
NextClear ==
    \/ Compile
    \/ IncPointer
    \/ IncByte
    \/ DecByte
    \/ OpenBracket
    \/ CloseBracket
    \/ Finish

SpecClear == InitClear /\ [][NextClear]_vars

\* The process is a single thread that runs until it returns or panics.
FairClear == SpecClear /\ WF_vars(NextClear)

---------------------------------------------------------------------------
\* Vocabulary of the properties.

\* compile returned Ok: execute has started (and perhaps ended).
CompileOk == pc \in {"execute", "ok", "runtime_error", "runtime_panic"}

\* The latest execute step returned Err or panicked.
StepFailed == pc \in {"runtime_error", "runtime_panic"}

\* The latest execute step ran the arm of op and returned Ok.
Stepped(op) == last.op = op /\ ~StepFailed

\* The cell under the data pointer before the latest step.
LastCell == At(last.memory, last.data_pointer)

\* The partner index carried by the instruction the latest step executed.
LastPartner == At(bytecode, last.instruction_pointer).jump_location

\* Number of occurrences of the character c among the first p of src.
CountChar(src, c, p) == Cardinality({q \in 1..p : src[q] = c})

\* Some ']' has no earlier '[' still unmatched.
HasUnmatchedClose(src) ==
    \E p \in 1..Len(src) :
        src[p] = "]" /\ CountChar(src, "]", p) > CountChar(src, "[", p)

\* As many '[' as ']'.
EqualCounts(src) ==
    CountChar(src, "[", Len(src)) = CountChar(src, "]", Len(src))

ValidlyNested(src) == EqualCounts(src) /\ ~HasUnmatchedClose(src)

\* The characters of src that are commands, in order.
Recognized(src) == SelectSeq(src, LAMBDA c : c \in Commands)

\* The instruction kind each non-loop command stands for.
KindOf(c) ==
    CASE c = ">" -> "IncPointer"
      [] c = "<" -> "DecPointer"
      [] c = "+" -> "IncByte"
      [] c = "-" -> "DecByte"
      [] c = "." -> "Output"
      [] c = "," -> "Input"

---------------------------------------------------------------------------
\* C1 (as stated): whenever some ']' of the source has no earlier unmatched
\* '[', compile returns a Compile error, equal bracket counts or not.
C1_UnmatchedCloseIsCompileError ==
    (pc # "compile" /\ HasUnmatchedClose(source)) => pc = "compile_error"

\* C2 (as stated): IncrementCell and DecrementCell never fail, leave
\* (v + 1) mod 256 and (v - 1) mod 256 in the cell under the data pointer and
\* advance the instruction pointer by 1.
C2_CellArithmeticWraps ==
    /\ last.op \in {"IncByte", "DecByte"} => ~StepFailed
    /\ Stepped("IncByte") =>
        /\ Cell(Self) = (LastCell + 1) % 256
        /\ instruction_pointer = last.instruction_pointer + 1
    /\ Stepped("DecByte") =>
        /\ Cell(Self) = (LastCell + 255) % 256
        /\ instruction_pointer = last.instruction_pointer + 1

\* C3 (as stated): after LoopOpen(partner) at index i the instruction pointer
\* is partner + 1 if the cell is zero and i + 1 otherwise; tape and data
\* pointer are unchanged.
C3_LoopOpenJumpsPastPartner ==
    Stepped("OpenBracket") =>
        /\ instruction_pointer =
             IF LastCell = 0 THEN LastPartner + 1 ELSE last.instruction_pointer + 1
        /\ memory = last.memory
        /\ data_pointer = last.data_pointer

\* C3 (amended): after LoopOpen(partner) at index i the instruction pointer is
\* partner, the index of the matching LoopClose itself, if the cell is zero,
\* and i + 1 otherwise; the step never fails; tape and data pointer are
\* unchanged.
C3_LoopOpenJumpsToPartner ==
    last.op = "OpenBracket" =>
        /\ ~StepFailed
        /\ instruction_pointer =
             IF LastCell = 0 THEN LastPartner ELSE last.instruction_pointer + 1
        /\ memory = last.memory
        /\ data_pointer = last.data_pointer

\* A LoopOpen on a zero cell has jumped over a non-empty loop body.
C3_Witness ==
    /\ Stepped("OpenBracket")
    /\ LastCell = 0
    /\ LastPartner > last.instruction_pointer + 1
    /\ instruction_pointer = LastPartner

\* C4 (as stated): after LoopClose(partner) at index i the instruction pointer
\* is partner + 1 if the cell is non-zero and i + 1 otherwise; tape and data
\* pointer are unchanged.
C4_LoopCloseJumpsPastPartner ==
    Stepped("CloseBracket") =>
        /\ instruction_pointer =
             IF LastCell # 0 THEN LastPartner + 1 ELSE last.instruction_pointer + 1
        /\ memory = last.memory
        /\ data_pointer = last.data_pointer

\* C4 (amended): after LoopClose(partner) at index i the instruction pointer is
\* partner, the index of the matching LoopOpen itself, if the cell is non-zero,
\* and i + 1 otherwise; the step never fails; tape and data pointer are
\* unchanged.
C4_LoopCloseJumpsToPartner ==
    last.op = "CloseBracket" =>
        /\ ~StepFailed
        /\ instruction_pointer =
             IF LastCell # 0 THEN LastPartner ELSE last.instruction_pointer + 1
        /\ memory = last.memory
        /\ data_pointer = last.data_pointer

\* A LoopClose on a non-zero cell has jumped back to its LoopOpen.
C4_Witness ==
    /\ Stepped("CloseBracket")
    /\ LastCell # 0
    /\ instruction_pointer = LastPartner
    /\ instruction_pointer < last.instruction_pointer

\* C5: a source whose brackets are equal in number and validly nested compiles;
\* the program has one instruction per command character of the source, none
\* for any other character, and each non-loop command appears as its own
\* instruction kind at its place among the commands.
C5_ValidSourceCompiles ==
    (pc # "compile" /\ ValidlyNested(source)) =>
        /\ CompileOk
        /\ Len(bytecode) = Len(Recognized(source))
        /\ \A k \in 1..Len(Recognized(source)) :
              LET c == Recognized(source)[k] IN
              IF c \in {"[", "]"}
              THEN bytecode[k].op \in {"OpenBracket", "CloseBracket"}
              ELSE bytecode[k] = [op |-> KindOf(c)]

\* A compiled source with a dropped character, a loop and a non-loop command.
C5_Witness ==
    /\ CompileOk
    /\ Len(bytecode) < Len(source)
    /\ \E k \in 1..Len(bytecode) : bytecode[k].op = "OpenBracket"
    /\ \E k \in 1..Len(bytecode) :
          bytecode[k].op \notin {"OpenBracket", "CloseBracket"}

\* C6: a source whose numbers of '[' and ']' differ is rejected with a Compile
\* error: there is no program and execution never starts.
C6_UnequalCountsRejected ==
    (pc # "compile" /\ ~EqualCounts(source)) =>
        /\ pc = "compile_error"
        /\ bytecode = <<>>
        /\ last.op = "None"

\* The source '[' has been rejected.
C6_Witness == source = <<"[">> /\ pc = "compile_error"

\* C7: in a compiled program the partner of each LoopOpen is an index of the
\* program that holds a LoopClose, the partner of each LoopClose one that holds
\* a LoopOpen, and the partner of the partner of i is i.
C7_PartnersAreMutual ==
    CompileOk =>
        \A i \in 0..(Len(bytecode) - 1) :
            LET ins == At(bytecode, i) IN
            ins.op \in {"OpenBracket", "CloseBracket"} =>
                /\ ins.jump_location \in 0..(Len(bytecode) - 1)
                /\ At(bytecode, ins.jump_location).op =
                     (IF ins.op = "OpenBracket" THEN "CloseBracket" ELSE "OpenBracket")
                /\ At(bytecode, ins.jump_location).jump_location = i

\* A compiled program with two loops.
C7_Witness ==
    /\ CompileOk
    /\ Cardinality({k \in 1..Len(bytecode) : bytecode[k].op = "OpenBracket"}) = 2

\* C8 (as stated): WriteByte emits exactly one byte, the value of the cell
\* under the data pointer, whatever that value; tape and data pointer are
\* unchanged and the instruction pointer advances by 1.
C8_WriteByteEmitsCell ==
    Stepped("Output") =>
        /\ stdout = Append(last.stdout, LastCell)
        /\ memory = last.memory
        /\ data_pointer = last.data_pointer
        /\ instruction_pointer = last.instruction_pointer + 1

\* C9 (as stated): a ReadByte takes exactly one byte from the input stream and
\* that byte is the one now in the cell under the data pointer.
C9_ReadByteTakesOneByte ==
    Stepped("Input") =>
        stdin_consumed = Append(last.stdin_consumed, Cell(Self))

\* C10: a MovePointerForward that returns Ok has increased the data pointer by
\* 1 and the instruction pointer by 1; if the new data pointer equals the tape
\* length it has appended one zero cell, otherwise the tape is unchanged; the
\* cells that were there keep their indices and values.
C10_ForwardAppendsZero ==
    Stepped("IncPointer") =>
        /\ data_pointer = last.data_pointer + 1
        /\ instruction_pointer = last.instruction_pointer + 1
        /\ memory = IF last.data_pointer + 1 = Len(last.memory)
                    THEN last.memory \o <<0>>
                    ELSE last.memory

\* A MovePointerForward has grown a tape that holds a non-zero cell.
C10_Witness ==
    /\ Stepped("IncPointer")
    /\ Len(memory) = Len(last.memory) + 1
    /\ \E k \in 1..Len(last.memory) : last.memory[k] # 0

\* C11: a MovePointerBackward that returns Ok has advanced the instruction
\* pointer by 1; from a data pointer above 0 it has decremented the data
\* pointer and left the tape unchanged; from data pointer 0 it has put one zero
\* cell in front of the tape, under the data pointer, every earlier cell now
\* one index higher with its value, and the data pointer is still 0.
C11_BackwardPrependsZero ==
    Stepped("DecPointer") =>
        /\ instruction_pointer = last.instruction_pointer + 1
        /\ data_pointer >= 0
        /\ IF last.data_pointer > 0
           THEN /\ data_pointer = last.data_pointer - 1
                /\ memory = last.memory
           ELSE /\ data_pointer = 0
                /\ Cell(Self) = 0
                /\ Len(memory) = Len(last.memory) + 1
                /\ \A k \in 1..Len(last.memory) : memory[k + 1] = last.memory[k]

\* A MovePointerBackward from data pointer 0 has grown a tape that holds a
\* non-zero cell.
C11_Witness ==
    /\ Stepped("DecPointer")
    /\ last.data_pointer = 0
    /\ \E k \in 1..Len(last.memory) : last.memory[k] # 0

\* The latest step was a pointer move that needed a new cell.
LastMoveMustGrow ==
    \/ last.op = "IncPointer" /\ last.data_pointer + 1 = Len(last.memory)
    \/ last.op = "DecPointer" /\ last.data_pointer = 0

\* C12 (as stated): the tape never has more than usize::MAX cells; a pointer
\* move returns a Runtime error exactly when it needs a new cell and the tape
\* already has usize::MAX cells, and then the tape has not grown.
C12_PointerMotionFailsOnlyAtLimit ==
    /\ Len(memory) <= usize_max
    /\ last.op \in {"IncPointer", "DecPointer"} =>
        /\ pc = "runtime_error" <=>
             (LastMoveMustGrow /\ Len(last.memory) = usize_max)
        /\ pc = "runtime_error" => memory = last.memory

\* The source is a run of '>' and nothing else.
OnlyForward(src) == Len(src) >= 1 /\ \A k \in 1..Len(src) : src[k] = ">"

\* The tape a run of n '>' needs fits the representable lengths.
ForwardRunFits(n) == n + 1 <= usize_max

\* C13 (as stated): N moves forward and one more from a fresh state, the
\* source being N + 1 times '>', end without error on a tape of N + 1 cells.
C13_ForwardRunLeavesNPlus1 ==
    (OnlyForward(source) /\ ForwardRunFits(Len(source))
        /\ pc \notin {"compile", "execute"}) =>
        /\ pc = "ok"
        /\ Len(memory) = (Len(source) - 1) + 1

\* C13 (amended): N moves forward and one more from a fresh state, N + 2 being
\* a representable length, never fail and end on a tape of N + 2 cells with the
\* data pointer at N + 1; before that the tape has one cell more than moves
\* were made.
C13_ForwardRunLeavesNPlus2 ==
    (OnlyForward(source) /\ ForwardRunFits(Len(source)) /\ pc # "compile") =>
        /\ pc \in {"execute", "ok"}
        /\ Len(memory) = instruction_pointer + 1
        /\ data_pointer = instruction_pointer
        /\ pc = "ok" =>
            /\ Len(memory) = (Len(source) - 1) + 2
            /\ data_pointer = (Len(source) - 1) + 1

\* One move forward and one more have ended.
C13_Witness == OnlyForward(source) /\ Len(source) >= 2 /\ pc = "ok"

\* Some arm of execute's match can run.
InstructionStep ==
    \/ IncPointer
    \/ DecPointer
    \/ IncByte
    \/ DecByte
    \/ Output
    \/ Input
    \/ OpenBracket
    \/ CloseBracket

\* C14: execute has returned Ok only with the instruction pointer at or beyond
\* the program length; every instruction executed was at an index below the
\* length; with the instruction pointer at or beyond the length the only step
\* is the return of Ok; the empty program returns Ok without a step.
C14_OkExactlyAtEnd ==
    /\ pc = "ok" => instruction_pointer >= Len(bytecode)
    /\ last.op # "None" => last.instruction_pointer < Len(bytecode)
    /\ (pc = "execute" /\ instruction_pointer >= Len(bytecode)) =>
        (ENABLED Finish /\ ~ENABLED InstructionStep)
    /\ (pc = "execute" /\ instruction_pointer < Len(bytecode)) => ~ENABLED Finish
    /\ (pc = "ok" /\ bytecode = <<>>) => last.op = "None"

\* A program of several instructions has run to its end and returned Ok.
C14_Witness ==
    /\ pc = "ok"
    /\ Len(bytecode) > 1
    /\ instruction_pointer = Len(bytecode)
    /\ last.instruction_pointer = Len(bytecode) - 1

\* "Hello World!" and a newline.
HelloBytes == <<72, 101, 108, 108, 111, 32, 87, 111, 114, 108, 100, 33, 10>>

\* C15: the Hello World program compiles, its run never fails, it ends with
\* Ok, and the bytes written are then exactly 72 101 108 108 111 32 87 111 114
\* 108 100 33 10; before the end they are a prefix of these.
C15_HelloWorld ==
    /\ [](pc \in {"compile", "execute", "ok"})
    /\ [](Len(stdout) <= Len(HelloBytes)
            /\ stdout = SubSeq(HelloBytes, 1, Len(stdout)))
    /\ [](pc = "ok" => stdout = HelloBytes)
    /\ <>(pc = "ok")

\* The Hello World program has ended with its thirteen bytes written.
C15_Witness == source = HelloSource /\ pc = "ok" /\ stdout = HelloBytes

----------------------------------------------------------------------------
\* The index of the '[' of the clearing loop.
ClearStart == Len(source) - Len(ClearLoop)

\* The program starts with "+>": the loop works on cell 1, right of a 1.
HasClearPrefix == Len(source) >= 5 /\ source[2] = ">"

\* The value v the cell holds when the loop is first reached.
ClearValue == ClearStart - (IF HasClearPrefix THEN 2 ELSE 0)

\* The data pointer when the loop is first reached.
ClearPointer == IF HasClearPrefix THEN 1 ELSE 0

\* The program '+[-]'.
PlusClear == <<"+">> \o ClearLoop

\* C16: for every v in 0..255 the run of '[-]' on a cell holding v never
\* fails and ends with Ok; the loop is entered with the cell at v; from then on
\* the data pointer, the tape length and the other cell stay as they were and
\* nothing is written; at the end the cell is 0. In '+[-]' the body runs, and
\* only ever on a cell holding 1, so it runs exactly once.
C16_ClearLoop ==
    /\ [](pc \in {"compile", "execute", "ok"})
    /\ [](CompileOk /\ instruction_pointer = ClearStart
            /\ last.op # "CloseBracket" => Cell(Self) = ClearValue)
    /\ [](CompileOk /\ instruction_pointer >= ClearStart =>
            /\ data_pointer = ClearPointer
            /\ Len(memory) = ClearPointer + 1
            /\ (HasClearPrefix => At(memory, 0) = 1)
            /\ stdout = <<>>)
    /\ [](pc = "ok" => Cell(Self) = 0)
    /\ [](source = PlusClear /\ last.op = "DecByte" => LastCell = 1)
    /\ <>(source = PlusClear => Stepped("DecByte"))
    /\ <>(pc = "ok")

\* The loop has cleared a cell that held 255 and left the 1 beside it.
C16_Witness ==
    /\ pc = "ok"
    /\ ClearValue = ByteMod - 1
    /\ last.op = "CloseBracket"
    /\ memory = <<1, 0>>
    /\ data_pointer = 1

----------------------------------------------------------------------------
\* The ']' that closes the '[' at index o of the commands cmds: the first
\* index after o up to which as many ']' as '[' have occurred since o.
SyntacticMatch(cmds, o) ==
    LET opens(c) == Cardinality({k \in o..c : At(cmds, k) = "["})
        closes(c) == Cardinality({k \in o..c : At(cmds, k) = "]"})
        balanced == {c \in (o + 1)..(Len(cmds) - 1) : opens(c) = closes(c)}
    IN CHOOSE c \in balanced : \A d \in balanced : c <= d

\* C17: in a compiled program the partner of each LoopOpen at o is the
\* syntactically matching bracket c of the source, o < c; every loop
\* instruction strictly between o and c has its partner strictly between o and
\* c; and an adjacent '[' ']' at i, i + 1 resolves to LoopOpen(i + 1),
\* LoopClose(i).
C17_PartnerIsSyntacticMatch ==
    CompileOk =>
        \A o \in 0..(Len(bytecode) - 1) :
            At(bytecode, o).op = "OpenBracket" =>
                LET c == At(bytecode, o).jump_location IN
                /\ c = SyntacticMatch(Recognized(source), o)
                /\ o < c
                /\ At(bytecode, c) = [op |-> "CloseBracket", jump_location |-> o]
                /\ \A k \in (o + 1)..(c - 1) :
                      At(bytecode, k).op \in {"OpenBracket", "CloseBracket"} =>
                          At(bytecode, k).jump_location \in (o + 1)..(c - 1)
                /\ (o + 1 < Len(bytecode) /\ At(Recognized(source), o + 1) = "]") =>
                      c = o + 1

\* A compiled program with an empty loop nested in a loop.
C17_Witness ==
    /\ CompileOk
    /\ \E o \in 0..(Len(bytecode) - 1) :
          /\ At(bytecode, o) = [op |-> "OpenBracket", jump_location |-> o + 3]
          /\ At(bytecode, o + 1) = [op |-> "OpenBracket", jump_location |-> o + 2]
          /\ At(bytecode, o + 2) = [op |-> "CloseBracket", jump_location |-> o + 1]

----------------------------------------------------------------------------
\* The kinds left unresolved by parse_character.
Placeholders == {"EmptyOpenBracket", "EmptyCloseBracket"}

\* The while loop of execute is at an instruction only its catch-all arm
\* (_ => ()) matches.
CatchAllSelected ==
    /\ pc = "execute"
    /\ instruction_pointer < Len(bytecode)
    /\ At(bytecode, instruction_pointer).op \in Placeholders

\* A compiled program holds no placeholder and the catch-all arm is never
\* selected.
NoPlaceholders ==
    CompileOk =>
        /\ \A k \in 1..Len(bytecode) : bytecode[k].op \notin Placeholders
        /\ ~CatchAllSelected

\* Every iteration that returns Ok has changed the instruction pointer.
OkStepMovesInstructionPointer ==
    (last.op # "None" /\ ~StepFailed) =>
        instruction_pointer # last.instruction_pointer

\* C18 (as stated): a compiled program holds no placeholder, the catch-all arm
\* is never taken, and every iteration of the execute loop either changes the
\* instruction pointer or returns an error.
C18_ResolvedAndEveryStepMovesOrErrs ==
    /\ NoPlaceholders
    /\ last.op # "None" =>
          (instruction_pointer # last.instruction_pointer \/ pc = "runtime_error")

----------------------------------------------------------------------------
\* C19: in every state of the execution of a compiled program the tape is
\* non-empty, the data pointer is below the tape length (the cell under it
\* exists), and the instruction pointer is at most the program length.
C19_PointersInBounds ==
    CompileOk =>
        /\ Len(memory) >= 1
        /\ data_pointer \in 0..(Len(memory) - 1)
        /\ instruction_pointer \in 0..Len(bytecode)

\* The run has ended at the end of the program, past a backward move from
\* cell 0, with the data pointer on the last cell of a tape that has grown at
\* both ends.
C19_Witness ==
    /\ pc = "ok"
    /\ instruction_pointer = Len(bytecode)
    /\ \E k \in 1..Len(bytecode) : bytecode[k].op = "DecPointer"
    /\ Len(memory) = 3
    /\ data_pointer = Len(memory) - 1

----------------------------------------------------------------------------
\* A taken branch has put the reference engine one instruction ahead: execute
\* is at the partner, a loop instruction, which it has yet to pass.
RefAhead ==
    /\ ref.instruction_pointer = instruction_pointer + 1
    /\ pc = "execute"
    /\ last.op \in {"OpenBracket", "CloseBracket"}
    /\ instruction_pointer < Len(bytecode)
    /\ At(bytecode, instruction_pointer).op \in {"OpenBracket", "CloseBracket"}

\* C20: on every program and input the engine and the reference engine, whose
\* taken branches go to partner + 1, have written the same bytes, are in the
\* same outcome (running, Ok, Runtime error, crash) and have the same tape and
\* data pointer; their instruction pointers are equal except after a taken
\* branch, when the engine has one more loop instruction to pass, a step that
\* changes nothing else.
C20_EnginesAgree ==
    /\ ref.stdout = stdout
    /\ ref.pc = pc
    /\ ref.memory = memory
    /\ ref.data_pointer = data_pointer
    /\ ref.instruction_pointer = instruction_pointer \/ RefAhead

\* After output, a taken LoopClose has put the reference engine ahead.
C20_Witness ==
    /\ RefAhead
    /\ last.op = "CloseBracket"
    /\ stdout # <<>>
====
